---- MODULE Spec2Model ----
(***************************************************************************)
(* Model of cobaya/input.py: the parameter-info merger                     *)
(* (merge_params_info), the defaults merger for parameters                 *)
(* (merge_default_params_info), the configuration resolver (update_info)   *)
(* the auto-parameter expansion (make_auto_params), the merger of infos    *)
(* (merge_info), the equivalence checker (is_equal_info) and the resume    *)
(* value selector (get_preferred_old_values).                              *)
(*                                                                         *)
(* Python values are represented as follows.                               *)
(*   - A dict whose key order is observable (a block of an info: the       *)
(*     params block, the prior block, a block of components) is an         *)
(*     ordered mapping [ord |-> sequence of keys, map |-> function].       *)
(*   - A dict that is only ever compared with == (the info of one          *)
(*     parameter, the options of one component, the info itself) is a      *)
(*     function from its keys to its values.                               *)
(*   - Scalars are strings ("1", "True", "lam", ...).  The shorthand       *)
(*     infos of a parameter are tagged: [t |-> "none"] is None,            *)
(*     [t |-> "num", v |-> "1"] a number, [t |-> "str", v |-> "lam"] a     *)
(*     string (a dynamically defined value).                               *)
(***************************************************************************)
EXTENDS Integers, Sequences, FiniteSets, TLC

VARIABLES
    mode,           \* which function of input.py this behaviour exercises
    pc,             \* position inside the function being exercised
    params_infos,   \* merge_params_info: its argument, a list of layers
    idx,            \* merge_params_info: number of layers already folded in
    prev_info,      \* merge_params_info: current_info before the last layer
    current_info,   \* merge_params_info: the accumulated current_info
    info,           \* update_info: its argument, the raw info
    updated,        \* update_info: outcome of update_info(info)
    updated2,       \* update_info: outcome of update_info(updated.info)
    cfg_old,        \* is_equal_info, get_preferred_old_values: the old info
    cfg_new,        \* is_equal_info: the new info
    equal_strict,   \* is_equal_info: outcome with strict=True
    equal_relaxed,  \* is_equal_info: outcome with strict=False
    keep_old,       \* get_preferred_old_values: its outcome
    cfgs,           \* merge_info: its arguments, as they are now
    given           \* the arguments as they were when the function was called

\* the variables of is_equal_info, get_preferred_old_values and merge_info
resume_vars == <<cfg_old, cfg_new, equal_strict, equal_relaxed, keep_old,
                 cfgs, given>>

vars == <<mode, pc, params_infos, idx, prev_info, current_info,
          info, updated, updated2, cfg_old, cfg_new, equal_strict,
          equal_relaxed, keep_old, cfgs, given>>

(***************************************************************************)
(* Bounds of the model.                                                    *)
(***************************************************************************)
MaxLayers == 3
MaxComps == 2

(***************************************************************************)
(* Generic helpers on sequences, dicts and ordered mappings.               *)
(***************************************************************************)
Range(s) == {s[i] : i \in 1..Len(s)}

RECURSIVE Dedup(_)
\* list(dict.fromkeys(s)): removes duplicates keeping the first occurrence
Dedup(s) ==
    IF s = <<>> THEN <<>>
    ELSE LET init == Dedup(SubSeq(s, 1, Len(s) - 1))
             last == s[Len(s)]
         IN IF last \in Range(init) THEN init ELSE Append(init, last)

RECURSIVE Chain(_)
\* itertools.chain(*ss) of a list of lists
Chain(ss) == IF ss = <<>> THEN <<>> ELSE Head(ss) \o Chain(Tail(ss))

Reverse(s) == [i \in 1..Len(s) |-> s[Len(s) + 1 - i]]

NoDup(s) == \A i, j \in 1..Len(s) : i # j => s[i] # s[j]

EmptyDict == [k \in {} |-> "x"]

\* d.update(e)
DictUpdate(d, e) ==
    [k \in (DOMAIN d) \cup (DOMAIN e) |-> IF k \in DOMAIN e THEN e[k] ELSE d[k]]

\* for k in ks: d.pop(k, None)
DictPop(d, ks) == [k \in (DOMAIN d) \ ks |-> d[k]]

\* d.get(k, dflt)
DictGet(d, k, dflt) == IF k \in DOMAIN d THEN d[k] ELSE dflt

OMap(o, m) == [ord |-> o, map |-> m]

OEmpty == OMap(<<>>, EmptyDict)

Keys(om) == Range(om.ord)

\* om[k] = v on an insertion-ordered dict
OSet(om, k, v) ==
    IF k \in DOMAIN om.map
    THEN OMap(om.ord, [om.map EXCEPT ![k] = v])
    ELSE OMap(Append(om.ord, k), DictUpdate(om.map, [x \in {k} |-> v]))

WellFormed(om) == NoDup(om.ord) /\ Range(om.ord) = DOMAIN om.map

(***************************************************************************)
(* Fields of the info of one parameter (cobaya.conventions.partag).        *)
(***************************************************************************)
f_prior    == "prior"
f_value    == "value"
f_derived  == "derived"
f_ref      == "ref"
f_proposal == "proposal"
f_latex    == "latex"
f_drop     == "drop"
f_renames  == "renames"

\* scalars that are Python strings (or callables): dynamically defined values
StrValues == {"lam"}

IsShorthand(v) == "t" \in DOMAIN v

\* cobaya.parameterization.expand_info_param
expand_info_param(info_param, default_derived) ==
    LET asdict == IF IsShorthand(info_param)
                  THEN IF info_param.t = "none" THEN EmptyDict
                       ELSE [k \in {f_value} |-> info_param.v]
                  ELSE info_param
        withder == IF DOMAIN asdict \cap {f_prior, f_value, f_derived} = {}
                   THEN DictUpdate(asdict, [k \in {f_derived} |-> default_derived])
                   ELSE asdict
    IN IF f_value \in DOMAIN withder /\ withder[f_value] \in StrValues
          /\ f_derived \notin DOMAIN withder
       THEN DictUpdate(withder, [k \in {f_derived} |-> "True"])
       ELSE withder

\* the table of merge_params_info: field set by the new layer |-> fields cleared
incompatibilities ==
    [k \in {f_prior, f_value, f_derived} |->
        CASE k = f_prior   -> {f_value, f_derived, "min", "max"}
          [] k = f_value   -> {f_prior, f_ref, f_proposal}
          [] k = f_derived -> {f_prior, f_drop, f_ref, f_proposal}]

\* the fields that a layer giving new_info_p (already expanded) clears
Cleared(new_info_p) ==
    UNION {incompatibilities[f1] :
               f1 \in (DOMAIN incompatibilities) \cap (DOMAIN new_info_p)}

\* a faulty body: the new info replaces the record instead of updating it
UpdateParam_Replace(cur_p, new_info_p_raw) ==
    expand_info_param(new_info_p_raw, "True")

\* body of the loop over the parameters of one layer, for one parameter
UpdateParam(cur_p, new_info_p_raw) ==
    LET new_info_p == expand_info_param(new_info_p_raw, "True")
    IN DictPop(DictUpdate(cur_p, new_info_p), Cleared(new_info_p))

\* body of the loop over the layers, for one layer
ApplyLayer(cur, new_info) ==
    IF new_info.ord = <<>> THEN cur
    ELSE LET added == SelectSeq(new_info.ord, LAMBDA p : p \notin Keys(cur))
         IN OMap(cur.ord \o added,
                 [p \in Keys(cur) \cup Keys(new_info) |->
                     IF p \in Keys(new_info)
                     THEN UpdateParam(IF p \in Keys(cur) THEN cur.map[p]
                                      ELSE EmptyDict,
                                      new_info.map[p])
                     ELSE cur.map[p]])

\* current_info before the loop: the expanded first layer
ExpandBase(base, default_derived) ==
    OMap(base.ord,
         [p \in Keys(base) |-> expand_info_param(base.map[p], default_derived)])

\* a faulty order: leftmost layer first
NewOrder_Leftmost(infos) ==
    Dedup(Chain([i \in 1..Len(infos) |-> infos[i].ord]))

\* the re-sorting: rightmost layer first, first occurrence of each key kept
NewOrder(infos) ==
    Dedup(Chain(Reverse([i \in 1..Len(infos) |-> infos[i].ord])))

Resort(cur, infos) ==
    LET new_order == NewOrder(infos)
    IN OMap(new_order, [p \in Range(new_order) |-> cur.map[p]])

RECURSIVE FoldLayers(_, _, _)
FoldLayers(cur, infos, i) ==
    IF i > Len(infos) THEN cur
    ELSE FoldLayers(ApplyLayer(cur, infos[i]), infos, i + 1)

merge_params_info(infos, default_derived) ==
    Resort(FoldLayers(ExpandBase(infos[1], default_derived), infos, 2), infos)

(***************************************************************************)
(* Inputs of merge_params_info: layers over the parameters a and b.        *)
(***************************************************************************)
NoneInfo == [t |-> "none"]

InfosA ==
    { [prior |-> "P1", ref |-> "R", proposal |-> "S", latex |-> "la"],
      [prior |-> "P2", drop |-> "True"],
      [value |-> "1"],
      [value |-> "1", drop |-> "True"],
      [derived |-> "True", min |-> "0", max |-> "9", latex |-> "la"],
      [min |-> "5"],
      [latex |-> "lb"],
      [prior |-> "P2", value |-> "3"],
      NoneInfo,
      [t |-> "num", v |-> "2"],
      [t |-> "str", v |-> "lam"] }

InfosAB == { [prior |-> "P1", ref |-> "R", proposal |-> "S", latex |-> "la"],
             [value |-> "1", drop |-> "True"],
             NoneInfo }

InfoB == [value |-> "7"]

Layers ==
    {OEmpty}
    \cup {OMap(<<"a">>, [a |-> v]) : v \in InfosA}
    \cup {OMap(<<"b">>, [b |-> InfoB])}
    \cup {OMap(<<"a", "b">>, [a |-> v, b |-> InfoB]) : v \in InfosAB}
    \cup {OMap(<<"b", "a">>, [a |-> v, b |-> InfoB]) : v \in InfosAB}

LayerLists == UNION {[1..n -> Layers] : n \in 2..MaxLayers}

Unused == "unused"

(***************************************************************************)
(* merge_params_info, one layer at a time.                                 *)
(***************************************************************************)
\* the variables of the other functions, when they are not exercised
ResumeUnused ==
    /\ cfg_old = Unused
    /\ cfg_new = Unused
    /\ equal_strict = Unused
    /\ equal_relaxed = Unused
    /\ keep_old = Unused
    /\ cfgs = Unused
    /\ given = Unused

InitMerge ==
    /\ mode = "merge"
    /\ pc = "call"
    /\ params_infos \in LayerLists
    /\ idx = 0
    /\ prev_info = OEmpty
    /\ current_info = OEmpty
    /\ info = Unused
    /\ updated = Unused
    /\ updated2 = Unused
    /\ ResumeUnused

\* current_info = {p: expand_info_param(v, default_derived) for p, v in ...}
MergeBase ==
    /\ mode = "merge" /\ pc = "call"
    /\ current_info' = ExpandBase(params_infos[1], "True")
    /\ prev_info' = OEmpty
    /\ idx' = 1
    /\ pc' = "loop"
    /\ UNCHANGED <<mode, params_infos, info, updated, updated2,
                   resume_vars>>

\* one iteration of "for new_info in params_infos[1:]"
MergeLayer ==
    /\ mode = "merge" /\ pc = "loop"
    /\ idx < Len(params_infos)
    /\ prev_info' = current_info
    /\ current_info' = ApplyLayer(current_info, params_infos[idx + 1])
    /\ idx' = idx + 1
    /\ UNCHANGED <<mode, pc, params_infos, info, updated, updated2,
                   resume_vars>>

\* the re-sorting after the loop, and the return
MergeReturn ==
    /\ mode = "merge" /\ pc = "loop"
    /\ idx = Len(params_infos)
    /\ current_info' = Resort(current_info, params_infos)
    /\ pc' = "done"
    /\ UNCHANGED <<mode, params_infos, idx, prev_info, info, updated, updated2,
                   resume_vars>>

NextMerge == MergeBase \/ MergeLayer \/ MergeReturn

SpecMerge == InitMerge /\ [][NextMerge]_vars

(***************************************************************************)
(* Names of cobaya.conventions used by update_info.                        *)
(***************************************************************************)
k_prior          == "prior"
k_params         == "params"
k_auto_params    == "auto_params"
k_external       == "external"
k_class_name     == "class"
k_provides       == "provides"
k_requires       == "requires"
k_input_params   == "input_params"
k_output_params  == "output_params"
k_component_path == "python_path"
k_aliases        == "aliases"
k_theory         == "theory"
k_likelihood     == "likelihood"
k_sampler        == "sampler"

kinds == <<k_sampler, k_theory, k_likelihood>>

IsNone(v) == "t" \in DOMAIN v /\ v.t = "none"

\* isinstance(v, dict) for the value of a block or of an entry
IsBlock(v) == "ord" \in DOMAIN v

\* an entry of a block that is a dict of options
IsOptions(v) == "t" \notin DOMAIN v

(***************************************************************************)
(* The component classes known to the registry: for each (kind, name) the  *)
(* attributes of the class (own defaults, possibly depending on the input  *)
(* options), its base class and its annotations.                           *)
(***************************************************************************)
ParamA == [prior |-> "P1", latex |-> "la"]

\* class attributes of the classes of the registry: get_class_options
get_class_options(cls, input_options) ==
    CASE cls = "BaseTheory" -> [speed |-> "-1", stop_at_error |-> "False"]
      [] cls = "BaseLike"   -> [type |-> <<>>, speed |-> "-1", stop_at_error |-> "False"]
      [] cls = "theory.A" ->
            [speed |-> "1",
             label |-> IF DictGet(input_options, "speed", "1") = "2"
                       THEN "fast" ELSE "slow",
             params |-> OMap(<<"a">>, [a |-> ParamA]),
             prior |-> OMap(<<"pa", "pt">>, [pa |-> "x", pt |-> "t"])]
      [] cls = "likelihood.A" ->
            [params |-> OMap(<<"a">>, [a |-> [value |-> "1"]]),
             prior |-> OMap(<<"pa", "pq">>, [pa |-> "y", pq |-> "q"])]
      [] cls = "likelihood.B" ->
            [type |-> <<"CMB">>,
             params |-> OMap(<<"a", "b">>, [a |-> ParamA, b |-> NoneInfo]),
             prior |-> OMap(<<"pb", "pa">>, [pa |-> "x", pb |-> "z"])]
      [] cls = "likelihood.C" ->
            [type |-> <<"BAO">>,
             params |-> OMap(<<"a">>, [a |-> [prior |-> "P1"]]),
             prior |-> OMap(<<"pa">>, [pa |-> "y"])]
      [] cls = "likelihood.E" -> EmptyDict

Classes == {"BaseTheory", "BaseLike", "theory.A", "likelihood.A",
            "likelihood.B", "likelihood.C", "likelihood.E"}

\* cls.__bases__ restricted to the classes with defaults
Bases(cls) ==
    CASE cls = "theory.A" -> <<"BaseTheory">>
      [] cls \in {"likelihood.A", "likelihood.B", "likelihood.C"} -> <<"BaseLike">>
      [] OTHER -> <<>>

\* cls.__annotations__ (names not starting with "_")
OwnAnnotations(cls) ==
    CASE cls = "theory.A" -> {"hint", "speed"}
      [] cls = "BaseTheory" -> {"speed", "timing"}
      [] OTHER -> {}

\* cls._at_resume_prefer_new and cls._at_resume_prefer_old
at_resume_prefer_new(cls) == IF cls = "theory.A" THEN {"speed"} ELSE {}
at_resume_prefer_old(cls) == IF cls = "theory.A" THEN {"label"} ELSE {}

\* component_base_classes[block]
component_base_classes(block) ==
    IF block = k_theory THEN "BaseTheory" ELSE "BaseLike"

\* cobaya.tools.get_resolved_class: "" stands for ImportError
get_resolved_class(component, kind) ==
    IF component \in {"A"} /\ kind = k_theory THEN "theory.A"
    ELSE IF component \in {"A", "B", "C", "E"} /\ kind = k_likelihood
         THEN IF component = "A" THEN "likelihood.A"
              ELSE IF component = "B" THEN "likelihood.B"
              ELSE IF component = "C" THEN "likelihood.C"
              ELSE "likelihood.E"
         ELSE ""

RECURSIVE get_defaults(_, _)
\* HasDefaults.get_defaults: the defaults of the bases, overridden by the own
get_defaults(cls, input_options) ==
    LET this_defaults == get_class_options(cls, input_options)
        bases == Bases(cls)
        RECURSIVE WithBases(_, _)
        WithBases(d, i) ==
            IF i > Len(bases) THEN d
            ELSE WithBases(DictUpdate(d, get_defaults(bases[i], input_options)),
                           i + 1)
    IN DictUpdate(WithBases(this_defaults, 1), this_defaults)

RECURSIVE get_annotations(_)
\* HasDefaults.get_annotations
get_annotations(cls) ==
    LET bases == Bases(cls)
    IN UNION {get_annotations(bases[i]) : i \in 1..Len(bases)}
       \cup OwnAnnotations(cls)

\* get_default_info(..., return_undefined_annotations=True) for a class found
get_default_info(cls, input_options) ==
    LET default_component_info == get_defaults(cls, input_options)
    IN [defaults |-> default_component_info,
        annotations |-> get_annotations(cls) \ DOMAIN default_component_info]

(***************************************************************************)
(* update_info.  Its outcome is [ok |-> TRUE, info |-> the updated info]   *)
(* or [ok |-> FALSE, err |-> the error raised, ...].                       *)
(***************************************************************************)
Err(e) == [ok |-> FALSE, err |-> e]

\* info.get(kind) or []: the names a block lists; a number cannot be iterated
BlockNames(input_info, kind) ==
    IF kind \notin DOMAIN input_info THEN <<>>
    ELSE LET b == input_info[kind]
         IN IF IsBlock(b) THEN b.ord
            ELSE IF b.t = "list" THEN Dedup(b.v)
            ELSE <<>>

\* the blocks on which iterating raises TypeError
BlockNotIterable(input_info, kind) ==
    /\ kind \in DOMAIN input_info
    /\ ~IsBlock(input_info[kind])
    /\ input_info[kind].t = "num"

\* get_used_components(info): the kinds with components, in the order of kinds
get_used_components(input_info) ==
    IF \E i \in 1..Len(kinds) : BlockNotIterable(input_info, kinds[i])
    THEN Err("malformed")
    ELSE [ok |-> TRUE,
          components |-> SelectSeq([i \in 1..Len(kinds) |->
                                       <<kinds[i], BlockNames(input_info, kinds[i])>>],
                                   LAMBDA c : c[2] # <<>>)]

\* the pairs (block, component) in the order of the two nested loops
WorkList(components) ==
    Chain([i \in 1..Len(components) |->
              [j \in 1..Len(components[i][2]) |->
                  <<components[i][1], components[i][2][j]>>]])

\* "x or {}" followed by the wrapping of a non-dict entry as {external: x}
NormalEntry(entry) ==
    IF IsNone(entry) \/ entry = EmptyDict THEN EmptyDict
    ELSE IF ~IsOptions(entry) THEN [e \in {k_external} |-> entry]
    ELSE entry

\* the option names that need not be among the defaults
reserved == {k_external, k_class_name, k_provides, k_requires, f_renames,
             k_input_params, k_output_params, k_component_path, k_aliases}

\* cobaya.tools.fuzzy_match: names that resemble the option
Similar(option) ==
    CASE option = "speedy" -> {"speed"}
      [] option = "s"      -> {"speed", "stop_at_error", "params", "requires", "class"}
      [] OTHER             -> {}

\* cobaya.tools.fuzzy_match(option, available, n): at most n close matches
fuzzy_match(option, available, n) ==
    LET cands == Similar(option) \cap available
    IN IF Cardinality(cands) <= n THEN cands
       ELSE CHOOSE c \in SUBSET cands : Cardinality(c) = n

\* a faulty check: annotations are not accepted as options
options_not_recognized_NoAnnotations(entry, defaults, annotations) ==
    (DOMAIN entry) \ (reserved \cup (DOMAIN defaults))

\* set(input_block[component]).difference(chain(reserved, updated, annotations))
options_not_recognized(entry, defaults, annotations) ==
    (DOMAIN entry) \ (reserved \cup (DOMAIN defaults) \cup annotations)

\* the defaults and annotations for an entry (already normalised) of a block,
\* or the error raised when the class is not found
DefaultsFor(block, component, entry) ==
    LET ext == DictGet(entry, k_external, NoneInfo)
    IN IF ~IsNone(ext)
       THEN IF ext.t = "class"
            THEN IF ext.v \in Classes
                 THEN [ok |-> TRUE, d |-> get_default_info(ext.v, entry)]
                 ELSE Err("defaults")
            ELSE [ok |-> TRUE,
                  d |-> [defaults |-> get_defaults(component_base_classes(block),
                                                   EmptyDict),
                         annotations |-> {}]]
       ELSE LET cls == get_resolved_class(
                           DictGet(entry, k_class_name, component), block)
            IN IF cls = "" THEN Err("defaults")
               ELSE [ok |-> TRUE, d |-> get_default_info(cls, entry)]

\* a faulty overlay: the defaults win over the options of the entry
Overlay_DefaultsWin(defaults, entry) == DictUpdate(entry, defaults)

\* updated[component] = defaults; updated[component].update(input_block[component])
Overlay(defaults, entry) == DictUpdate(defaults, entry)

\* the state of update_info before the loops over the components
LoopInit ==
    [ok |-> TRUE, updated_info |-> EmptyDict,
     default_params_info |-> OEmpty, default_prior_info |-> OEmpty]

\* the body of the loop over the components of a block
ProcessComponent(acc, block, component, input_info) ==
    IF ~IsBlock(input_info[block]) THEN Err("malformed")
    ELSE
    LET raw == input_info[block].map[component]
    IN IF ~IsOptions(raw) /\ raw.t = "instance" THEN Err("instance")
       ELSE
       LET entry == NormalEntry(raw)
           dflt == DefaultsFor(block, component, entry)
       IN IF ~dflt.ok THEN dflt
          ELSE
          LET default_class_info == dflt.d.defaults
              unknown == options_not_recognized(entry, default_class_info,
                                                dflt.d.annotations)
              available == {k_external, k_class_name, k_requires, f_renames}
                               \cup DOMAIN default_class_info
              merged == Overlay(default_class_info, entry)
              \* updated[component] is default_class_info itself unless that
              \* is empty, so the sub-blocks are read after the update
              seen == IF default_class_info = EmptyDict
                      THEN default_class_info ELSE merged
              blk == IF block \in DOMAIN acc.updated_info
                     THEN acc.updated_info[block] ELSE OEmpty
          IN IF unknown # {}
             THEN [ok |-> FALSE, err |-> "unrecognized", block |-> block,
                   component |-> component,
                   alternatives |-> [o \in unknown |->
                                        fuzzy_match(o, available, 3)]]
             ELSE [ok |-> TRUE,
                   updated_info |->
                       DictUpdate(acc.updated_info,
                                  [b \in {block} |-> OSet(blk, component, merged)]),
                   default_params_info |->
                       OSet(acc.default_params_info, component,
                            DictGet(seen, k_params, OEmpty)),
                   default_prior_info |->
                       OSet(acc.default_prior_info, component,
                            DictGet(seen, k_prior, OEmpty))]

RECURSIVE LoopComponents(_, _, _, _)
LoopComponents(acc, work, i, input_info) ==
    IF i > Len(work) \/ ~acc.ok THEN acc
    ELSE LoopComponents(ProcessComponent(acc, work[i][1], work[i][2], input_info),
                        work, i + 1, input_info)

\* the items (key, value) of the blocks of all components, in order
AllItems(per_component) ==
    Chain([i \in 1..Len(per_component.ord) |->
              LET b == per_component.map[per_component.ord[i]]
              IN [j \in 1..Len(b.ord) |-> <<b.ord[j], b.map[b.ord[j]]>>]])

RECURSIVE AddPriors(_, _, _)
\* for name, prior in prior_info.items(): check against the block, then set
AddPriors(prior_block, items, i) ==
    IF i > Len(items) THEN [ok |-> TRUE, prior |-> prior_block]
    ELSE IF DictGet(prior_block.map, items[i][1], items[i][2]) # items[i][2]
         THEN Err("prior")
         ELSE AddPriors(OSet(prior_block, items[i][1], items[i][2]), items, i + 1)

\* a faulty condition: the prior block is created unconditionally
HasPriorBlock_Always(input_info, default_prior_info) == TRUE

\* _prior in input_info or any(default_prior_info.values())
HasPriorBlock(input_info, default_prior_info) ==
    \/ k_prior \in DOMAIN input_info
    \/ \E c \in DOMAIN default_prior_info.map :
           default_prior_info.map[c].ord # <<>>

RECURSIVE MergeDefaults(_, _, _)
\* the loops of merge_default_params_info
MergeDefaults(defaults_merged, items, i) ==
    IF i > Len(items) THEN [ok |-> TRUE, params |-> defaults_merged]
    ELSE IF /\ items[i][1] \in Keys(defaults_merged)
            /\ items[i][2] # defaults_merged.map[items[i][1]]
         THEN Err("params")
         ELSE MergeDefaults(OSet(defaults_merged, items[i][1], items[i][2]),
                            items, i + 1)

merge_default_params_info(defaults) == MergeDefaults(OEmpty, AllItems(defaults), 1)

\* the values of the option "type" of the likelihoods, sorted
SortedTypes == <<"BAO", "CMB">>

\* cobaya.conventions._get_chi2_name and _get_chi2_label
get_chi2_name(t) == IF t = "BAO" THEN "chi2__BAO" ELSE "chi2__CMB"
get_chi2_label(t) == IF t = "BAO" THEN "chi2_BAO_label" ELSE "chi2_CMB_label"

RECURSIVE add_aggregated_chi2_params(_, _, _)
\* for t in sorted(all_types): param_info[chi2 name] = {latex, derived: True}
add_aggregated_chi2_params(param_info, all_types, i) ==
    IF i > Len(SortedTypes) THEN param_info
    ELSE add_aggregated_chi2_params(
             IF SortedTypes[i] \in all_types
             THEN OSet(param_info, get_chi2_name(SortedTypes[i]),
                       [latex |-> get_chi2_label(SortedTypes[i]),
                        derived |-> "True"])
             ELSE param_info,
             all_types, i + 1)

\* the types of all likelihoods of the updated info
AllTypes(likes) ==
    UNION {Range(DictGet(likes.map[c], "type", <<>>)) : c \in Keys(likes)}

\* strings with the placeholder, and the formatting s % v
HasPlaceholder(s) == s \in {"bin%s", "b_%s"}

Format(s, v) ==
    CASE s = "bin%s" /\ v = "1" -> "bin1"
      [] s = "bin%s" /\ v = "2" -> "bin2"
      [] s = "b_%s"  /\ v = "1" -> "b_1"
      [] s = "b_%s"  /\ v = "2" -> "b_2"

\* make_auto_params.replace on the body of a template
Replace(item, tag) ==
    [key \in DOMAIN item |->
        IF HasPlaceholder(item[key]) THEN Format(item[key], tag) ELSE item[key]]

RECURSIVE AutoValues(_, _, _, _)
\* for value in replacements: params_info[k % value] = replace(v, value)
AutoValues(params_info, k, v, i) ==
    IF i > Len(v.auto_range) THEN params_info
    ELSE AutoValues(OSet(params_info, Format(k, v.auto_range[i]),
                         Replace(DictPop(v, {"auto_range"}), v.auto_range[i])),
                    k, v, i + 1)

RECURSIVE make_auto_params_from(_, _, _)
make_auto_params_from(auto_params, params_info, i) ==
    IF i > Len(auto_params.ord) THEN [ok |-> TRUE, params |-> params_info]
    ELSE IF ~HasPlaceholder(auto_params.ord[i]) THEN Err("auto_params")
         ELSE make_auto_params_from(
                  auto_params,
                  AutoValues(params_info, auto_params.ord[i],
                             auto_params.map[auto_params.ord[i]], 1),
                  i + 1)

make_auto_params(auto_params, params_info) ==
    make_auto_params_from(auto_params, params_info, 1)

\* the options of the theories and likelihoods of the updated info, in order
RenameItems(updated_info) ==
    Chain([i \in 1..2 |->
              LET kind == <<k_theory, k_likelihood>>[i]
              IN IF kind \in DOMAIN updated_info
                 THEN [j \in 1..Len(updated_info[kind].ord) |->
                          updated_info[kind].map[updated_info[kind].ord[j]]]
                 ELSE <<>>])

\* [set([k] + str_to_list(v)) for k, v in renames.items()]
renames_flat(renames) == {{k} \cup renames[k] : k \in DOMAIN renames}

\* the loop "for p in updated_info[_params]" for one rename table
AddRenames(params_info, renames) ==
    OMap(params_info.ord,
         [p \in Keys(params_info) |->
             LET renames_pairs == {a \in renames_flat(renames) : p \in a}
             IN IF renames_pairs = {} THEN params_info.map[p]
                ELSE DictUpdate(params_info.map[p],
                         [r \in {f_renames} |->
                             ((UNION renames_pairs)
                              \cup DictGet(params_info.map[p], f_renames, {}))
                             \ {p}])])

RECURSIVE LoopRenames(_, _, _)
\* the loops "for kind ... for item in updated_info[kind].values()"
LoopRenames(params_info, items, i) ==
    IF i > Len(items) THEN [ok |-> TRUE, params |-> params_info]
    ELSE LET renames == DictGet(items[i], f_renames, EmptyDict)
         IN IF renames = EmptyDict
            THEN LoopRenames(params_info, items, i + 1)
            ELSE IF ~IsOptions(renames) THEN Err("renames")
            ELSE LoopRenames(AddRenames(params_info, renames), items, i + 1)

\* "for k, v in input_info.items(): if k not in updated_info: ..."
RestOfOptions(updated_info, input_info) ==
    [k \in (DOMAIN updated_info) \cup (DOMAIN input_info) |->
        IF k \in DOMAIN updated_info THEN updated_info[k] ELSE input_info[k]]

\* update_info, from the merging of the parameters on
UpdateParams(loop, with_prior, input_info) ==
    LET defaults_merged == merge_default_params_info(loop.default_params_info)
    IN IF ~defaults_merged.ok THEN defaults_merged
       ELSE
       LET merged == merge_params_info(
                         <<defaults_merged.params,
                           DictGet(input_info, k_params, OEmpty)>>, "False")
       IN IF k_likelihood \in DOMAIN input_info
             /\ k_likelihood \notin DOMAIN with_prior
          THEN Err("KeyError")
          ELSE
          LET with_chi2 ==
                  IF k_likelihood \in DOMAIN input_info
                  THEN add_aggregated_chi2_params(
                           merged, AllTypes(with_prior[k_likelihood]), 1)
                  ELSE merged
              \* the block of automatic parameters is looked up in the
              \* updated info, which holds only components, prior and params
              auto == IF k_auto_params \in DOMAIN with_prior
                      THEN make_auto_params(with_prior[k_auto_params], with_chi2)
                      ELSE [ok |-> TRUE, params |-> with_chi2]
          IN IF ~auto.ok THEN auto
             ELSE
             LET renamed == LoopRenames(auto.params, RenameItems(with_prior), 1)
             IN IF ~renamed.ok THEN renamed
                ELSE [ok |-> TRUE,
                      info |-> RestOfOptions(
                          DictUpdate(DictPop(with_prior, {k_auto_params}),
                                     [k \in {k_params} |-> renamed.params]),
                          input_info)]

update_info(input_info) ==
    LET used == get_used_components(input_info)
    IN IF ~used.ok THEN used
       ELSE
       LET loop == LoopComponents(LoopInit, WorkList(used.components), 1,
                                  input_info)
       IN IF ~loop.ok THEN loop
          ELSE
          LET prior0 == IF HasPriorBlock(input_info, loop.default_prior_info)
                        THEN [k \in {k_prior} |->
                                 DictGet(input_info, k_prior, OEmpty)]
                        ELSE EmptyDict
              priors == AddPriors(DictGet(prior0, k_prior, OEmpty),
                                  AllItems(loop.default_prior_info), 1)
          IN IF ~priors.ok THEN priors
             ELSE UpdateParams(
                      loop,
                      DictUpdate(loop.updated_info,
                                 IF k_prior \in DOMAIN prior0
                                 THEN [k \in {k_prior} |-> priors.prior]
                                 ELSE EmptyDict),
                      input_info)

(***************************************************************************)
(* is_equal_info.  Its outcome is "equal" (True), "different" (False) or   *)
(* "raised" (an exception of Python).  A value of the info that is not a   *)
(* block is tagged: [t |-> "none"] is None, [t |-> "val", ...] a boolean   *)
(* or a number, [t |-> "str", ...] a string.                               *)
(***************************************************************************)
k_debug         == "debug"
k_debug_file    == "debug_file"
k_resume        == "resume"
k_force         == "force"
k_packages_path == "packages_path"
k_test_run      == "test"
k_version       == "version"

\* the keys of an info in the order in which update_info inserts them
TopOrder == <<k_sampler, k_theory, k_likelihood, k_prior, k_params,
              k_auto_params, k_debug, k_debug_file, k_resume, k_force,
              k_packages_path, k_test_run, k_version, "output">>

\* variant: the version is compared also when not strict
RootIgnore_NoVersion(strict) ==
    IF strict THEN {}
    ELSE {k_debug, k_debug_file, k_resume, k_force, k_packages_path,
          k_test_run}

\* the keys ignored at the root of the infos when not strict
RootIgnore(strict) ==
    IF strict THEN {}
    ELSE {k_debug, k_debug_file, k_resume, k_force, k_packages_path,
          k_test_run, k_version}

\* set(info for info in info_old if info_old[info] is not None)
NotNoneKeys(an_info) == {k \in DOMAIN an_info : ~IsNone(an_info[k])}

\* == of the options of two components: the sub-blocks are plain dicts
OptionsEqual(e1, e2) ==
    IF IsOptions(e1) /\ IsOptions(e2)
    THEN /\ DOMAIN e1 = DOMAIN e2
         /\ \A o \in DOMAIN e1 :
               IF o \in {k_params, k_prior} THEN e1[o].map = e2[o].map
               ELSE e1[o] = e2[o]
    ELSE e1 = e2

\* block1[k] != block2[k] of the strict mode
EntriesEqual(block_name, e1, e2) ==
    IF block_name \in Range(kinds) THEN OptionsEqual(e1, e2) ELSE e1 = e2

\* the options ignored for component k of a block of components
IgnoreForComponent(block_name, k, e1) ==
    LET ignore_k == IF block_name \in {k_theory, k_likelihood}
                    THEN {k_input_params, k_output_params} ELSE {}
        cls == get_resolved_class(DictGet(e1, k_class_name, k), block_name)
    IN ignore_k \cup {k_component_path}
       \cup (IF k_external \notin DOMAIN e1 /\ cls # ""
             THEN at_resume_prefer_new(cls) ELSE {})

\* the "unified notation" of the info of a parameter when not strict
UnifyParam(p_info) ==
    LET e == expand_info_param(p_info, "True")
        d == IF f_value \in DOMAIN e THEN DictPop(e, {f_derived}) ELSE e
    IN DictUpdate(d, [r \in {f_renames} |-> DictGet(d, f_renames, {})])

\* the comparison of the entries k of two blocks: "same", "different", "raised"
CompareEntry(block_name, k, e1, e2, strict) ==
    IF strict
    THEN IF EntriesEqual(block_name, e1, e2) THEN "same" ELSE "different"
    ELSE IF block_name \in Range(kinds)
         THEN IF ~IsOptions(e1) \/ ~IsOptions(e2) THEN "raised"
              ELSE LET ign == IgnoreForComponent(block_name, k, e1)
                   IN IF OptionsEqual(DictPop(e1, ign), DictPop(e2, ign))
                      THEN "same" ELSE "different"
         ELSE IF block_name = k_params
              THEN IF UnifyParam(e1) = UnifyParam(e2)
                   THEN "same" ELSE "different"
              ELSE IF e1 = e2 THEN "same" ELSE "different"

RECURSIVE CompareEntries(_, _, _, _, _)
\* the loop "for k in block1": the first entry that is not the same decides
CompareEntries(block_name, block1, block2, strict, i) ==
    IF i > Len(block1.ord) THEN "same"
    ELSE LET k == block1.ord[i]
             c == CompareEntry(block_name, k, block1.map[k], block2.map[k],
                               strict)
         IN IF c # "same" THEN c
            ELSE CompareEntries(block_name, block1, block2, strict, i + 1)

\* variant: the order of the keys is compared also when not strict
CompareBlock_Ordered(block_name, block1, block2, strict) ==
    IF ~IsBlock(block1)
    THEN IF block1 # block2 THEN "different" ELSE "same"
    ELSE IF ~IsBlock(block2)
         THEN IF block2.t = "str" THEN "different" ELSE "raised"
         ELSE IF block1.ord # block2.ord
              THEN "different"
              ELSE CompareEntries(block_name, block1, block2, strict, 1)

\* the body of the loop "for block_name in info_old"
CompareBlock(block_name, block1, block2, strict) ==
    IF ~IsBlock(block1)
    THEN IF block1 # block2 THEN "different" ELSE "same"
    ELSE IF ~IsBlock(block2)
         \* list(x) or set(x) of a value that is not a dict: a string can be
         \* iterated (its characters are not the keys of block1), others not
         THEN IF block2.t = "str" THEN "different" ELSE "raised"
         ELSE IF (strict /\ block1.ord # block2.ord)
                 \/ (~strict /\ Keys(block1) # Keys(block2))
              THEN "different"
              ELSE CompareEntries(block_name, block1, block2, strict, 1)

RECURSIVE CompareBlocks(_, _, _, _, _)
CompareBlocks(info_old, info_new, strict, order, i) ==
    IF i > Len(order) THEN "equal"
    ELSE IF order[i] \notin DOMAIN info_old
            \/ order[i] \in RootIgnore(strict)
            \/ order[i] \notin DOMAIN info_new
         THEN CompareBlocks(info_old, info_new, strict, order, i + 1)
         ELSE LET c == CompareBlock(order[i], info_old[order[i]],
                                    info_new[order[i]], strict)
              IN IF c # "same" THEN c
                 ELSE CompareBlocks(info_old, info_new, strict, order, i + 1)

\* variant: when not strict, the options that are None count as present
is_equal_info_KeepsNone(info_old, info_new, strict) ==
    IF (IF strict THEN NotNoneKeys(info_old) ELSE DOMAIN info_old)
           \ RootIgnore(strict)
       # (IF strict THEN NotNoneKeys(info_new) ELSE DOMAIN info_new)
           \ RootIgnore(strict)
    THEN "different"
    ELSE CompareBlocks(info_old, info_new, strict, TopOrder, 1)

is_equal_info(info_old, info_new, strict) ==
    IF NotNoneKeys(info_old) \ RootIgnore(strict)
           # NotNoneKeys(info_new) \ RootIgnore(strict)
    THEN "different"
    ELSE CompareBlocks(info_old, info_new, strict, TopOrder, 1)

(***************************************************************************)
(* Inputs of update_info: raw infos put together from optional blocks.     *)
(***************************************************************************)
Callable == [t |-> "callable", v |-> "fn"]

TheoryBlocks ==
    { OMap(<<"A">>, [A |-> NoneInfo]),
      OMap(<<"A">>, [A |-> [speed |-> "2"]]),
      OMap(<<"A">>, [A |-> [hint |-> "h"]]),
      OMap(<<"A">>, [A |-> [bogus |-> "1", speedy |-> "3", s |-> "0"]]),
      OMap(<<"A">>, [A |-> [renames |-> [a |-> {"x"}]]]),
      OMap(<<"A">>, [A |-> [renames |-> [a |-> {"b"}, b |-> {"c"}]]]),
      OMap(<<"A">>, [A |-> [t |-> "instance"]]),
      OMap(<<"Z">>, [Z |-> NoneInfo]),
      [t |-> "num", v |-> "1"] }

LikeNames == {"A", "B", "C", "E"}

\* the entries tried for each likelihood
EntriesOf(c) ==
    CASE c = "B" -> {NoneInfo, [type |-> <<"BAO">>]}
      [] c = "E" -> {NoneInfo, Callable}
      [] OTHER   -> {NoneInfo}

LikeBlocks ==
    UNION {
        UNION {
            {OMap(o, m) : m \in {mm \in [Range(o) -> UNION {EntriesOf(c) : c \in LikeNames}] :
                                     \A c \in Range(o) : mm[c] \in EntriesOf(c)}}
            : o \in {oo \in [1..n -> LikeNames] : NoDup(oo)}}
        : n \in 0..MaxComps}

PriorBlocks ==
    { OEmpty,
      OMap(<<"pa">>, [pa |-> "x"]),
      OMap(<<"pa">>, [pa |-> "w"]),
      OMap(<<"third">>, [third |-> "t"]) }

ParamsBlocks ==
    { OMap(<<"a">>, [a |-> [value |-> "1", drop |-> "True"]]),
      OMap(<<"b">>, [b |-> [value |-> "7", drop |-> "True"]]),
      OMap(<<"b", "a">>, [a |-> [latex |-> "lb"], b |-> InfoB]),
      OMap(<<"c">>, [c |-> NoneInfo]) }

AutoBlocks ==
    { OMap(<<"bin%s">>, [k \in {"bin%s"} |->
                            [auto_range |-> <<"1", "2">>, latex |-> "b_%s"]]),
      OMap(<<"bin">>, [k \in {"bin"} |->
                          [auto_range |-> <<"1", "2">>, latex |-> "b_%s"]]) }

\* a block that may be absent from the info
Optional(key, blocks) == {EmptyDict} \cup {[k \in {key} |-> b] : b \in blocks}

RawInfos ==
    { DictUpdate(DictUpdate(DictUpdate(DictUpdate(DictUpdate(
          [debug |-> [t |-> "val", v |-> "True"]], th), li), pr), pa), au) :
        th \in Optional(k_theory, TheoryBlocks),
        li \in Optional(k_likelihood, LikeBlocks),
        pr \in Optional(k_prior, PriorBlocks),
        pa \in Optional(k_params, ParamsBlocks),
        au \in Optional(k_auto_params, AutoBlocks) }

(***************************************************************************)
(* update_info, and update_info applied to the info it returned.           *)
(***************************************************************************)
InitUpdate ==
    /\ mode = "update"
    /\ pc = "call"
    /\ params_infos = <<>>
    /\ idx = 0
    /\ prev_info = OEmpty
    /\ current_info = OEmpty
    /\ info \in RawInfos
    /\ updated = Unused
    /\ updated2 = Unused
    /\ ResumeUnused

\* updated_info = update_info(info)
Update ==
    /\ mode = "update" /\ pc = "call"
    /\ updated' = update_info(info)
    /\ pc' = "updated"
    /\ UNCHANGED <<mode, params_infos, idx, prev_info, current_info, info, updated2,
                   resume_vars>>

\* update_info(updated_info), for an info that update_info returned
UpdateAgain ==
    /\ mode = "update" /\ pc = "updated"
    /\ updated.ok
    /\ updated2' = update_info(updated.info)
    /\ pc' = "updated2"
    /\ UNCHANGED <<mode, params_infos, idx, prev_info, current_info, info, updated,
                   resume_vars>>

NextUpdate == Update \/ UpdateAgain

SpecUpdate == InitUpdate /\ [][NextUpdate]_vars

(***************************************************************************)
(* Inputs of is_equal_info: an old and a new info.  The infos are the      *)
(* variations of one resolved info, some infos that update_info returns,   *)
(* and infos that are not resolved (an entry that is None, a block that is *)
(* not a mapping).                                                         *)
(***************************************************************************)
Val(v) == [t |-> "val", v |-> v]
Str(v) == [t |-> "str", v |-> v]

\* replaces the value of one key of a dict
With(d, k, v) == DictUpdate(d, [x \in {k} |-> v])

\* replaces the value of one key of a block, keeping the order of its keys
OWith(om, k, v) == OMap(om.ord, With(om.map, k, v))

TheoryAB == OMap(<<"A", "B">>, [A |-> [speed |-> "1", label |-> "slow"],
                               B |-> EmptyDict])

ParamsABC ==
    OMap(<<"a", "b", "c">>,
         [a |-> [prior |-> "P1", latex |-> "la"],
          b |-> [value |-> "7", derived |-> "False"],
          c |-> [derived |-> "True", min |-> "0", max |-> "1"]])

PriorAB == OMap(<<"pa", "pb">>, [pa |-> "x", pb |-> "z"])

BaseInfo == [theory |-> TheoryAB, params |-> ParamsABC, prior |-> PriorAB]

\* the same blocks, their keys in another order
ReorderedInfos ==
    { With(BaseInfo, k_theory, OMap(<<"B", "A">>, TheoryAB.map)),
      With(BaseInfo, k_params, OMap(<<"b", "a", "c">>, ParamsABC.map)),
      With(BaseInfo, k_prior, OMap(<<"pb", "pa">>, PriorAB.map)) }

\* the info of one parameter changed
ParamVariants ==
    { With(BaseInfo, k_params, OWith(ParamsABC, pv[1], pv[2])) :
        pv \in { <<"a", [prior |-> "P1", latex |-> "lb"]>>,
                 <<"a", [prior |-> "P1"]>>,
                 <<"a", [prior |-> "P1", latex |-> "la", renames |-> {"x"}]>>,
                 <<"a", [prior |-> "P1", latex |-> "la", ref |-> "R"]>>,
                 <<"a", [prior |-> "P1", latex |-> "la", proposal |-> "S"]>>,
                 <<"a", [prior |-> "P2", latex |-> "la"]>>,
                 <<"b", [value |-> "7"]>>,
                 <<"b", [value |-> "7", derived |-> "True"]>>,
                 <<"b", [value |-> "8", derived |-> "False"]>>,
                 <<"c", [derived |-> "True", min |-> "5", max |-> "1"]>>,
                 <<"c", [derived |-> "True", min |-> "0"]>>,
                 <<"c", [derived |-> "True", min |-> "0", max |-> "1",
                         latex |-> "lc"]>> } }

\* the options of one component changed
ComponentVariants ==
    { With(BaseInfo, k_theory, OWith(TheoryAB, "A", e)) :
        e \in { [speed |-> "2", label |-> "slow"],
                [speed |-> "1", label |-> "fast"],
                [speed |-> "1", label |-> "slow", python_path |-> "/p"],
                [speed |-> "1", label |-> "slow", input_params |-> "ip"],
                [speed |-> "1", label |-> "slow", output_params |-> "op"] } }

\* the run-control options of the root of the info
RunControlVariants ==
    { With(BaseInfo, kv[1], kv[2]) :
        kv \in { <<k_debug, Val("True")>>, <<k_debug, Val("False")>>,
                 <<k_debug, NoneInfo>>, <<k_debug_file, Str("f")>>,
                 <<k_resume, Val("True")>>, <<k_force, Val("True")>>,
                 <<k_packages_path, Str("/pk")>>, <<k_packages_path, NoneInfo>>,
                 <<k_test_run, Val("True")>>, <<k_version, Str("3.0")>>,
                 <<k_version, Str("3.1")>>, <<"output", Str("chains/a")>>,
                 <<"output", Str("chains/b")>>, <<"output", NoneInfo>> } }

\* infos whose theory block is not a mapping of options, or is absent
UnresolvedInfos ==
    { With(BaseInfo, k_theory, Val("1")),
      With(BaseInfo, k_theory, Str("A")),
      With(BaseInfo, k_theory, OWith(TheoryAB, "B", NoneInfo)),
      DictPop(BaseInfo, {k_theory}) }

\* infos returned by update_info
UpdatedInfos ==
    { update_info(r).info :
        r \in { [likelihood |-> OMap(<<"B">>, [B |-> NoneInfo])],
                [likelihood |-> OMap(<<"B", "E">>, [B |-> NoneInfo, E |-> Callable])],
                [likelihood |-> OMap(<<"E", "B">>, [B |-> NoneInfo, E |-> Callable])],
                [theory |-> OMap(<<"A">>, [A |-> [speed |-> "2"]]),
                 debug |-> Val("True")],
                [theory |-> OMap(<<"A">>, [A |-> NoneInfo])] } }

EqualInfos ==
    {BaseInfo} \cup ReorderedInfos \cup ParamVariants \cup ComponentVariants
    \cup RunControlVariants \cup UnresolvedInfos \cup UpdatedInfos

(***************************************************************************)
(* is_equal_info(cfg_old, cfg_new), in strict and in relaxed mode.  The    *)
(* function works on copies of the blocks, the infos are left as they are. *)
(***************************************************************************)
InitEqual ==
    /\ mode = "equal"
    /\ pc = "call"
    /\ params_infos = <<>>
    /\ idx = 0
    /\ prev_info = OEmpty
    /\ current_info = OEmpty
    /\ info = Unused
    /\ updated = Unused
    /\ updated2 = Unused
    /\ cfg_old \in EqualInfos
    /\ cfg_new \in EqualInfos
    /\ equal_strict = Unused
    /\ equal_relaxed = Unused
    /\ keep_old = Unused
    /\ cfgs = Unused
    /\ given = Unused

\* is_equal_info(cfg_old, cfg_new, strict=True)
EqualStrict ==
    /\ mode = "equal" /\ equal_strict = Unused
    /\ equal_strict' = is_equal_info(cfg_old, cfg_new, TRUE)
    /\ pc' = IF equal_relaxed = Unused THEN "call" ELSE "done"
    /\ UNCHANGED <<mode, params_infos, idx, prev_info, current_info, info,
                   updated, updated2, cfg_old, cfg_new, equal_relaxed,
                   keep_old, cfgs, given>>

\* is_equal_info(cfg_old, cfg_new, strict=False)
EqualRelaxed ==
    /\ mode = "equal" /\ equal_relaxed = Unused
    /\ equal_relaxed' = is_equal_info(cfg_old, cfg_new, FALSE)
    /\ pc' = IF equal_strict = Unused THEN "call" ELSE "done"
    /\ UNCHANGED <<mode, params_infos, idx, prev_info, current_info, info,
                   updated, updated2, cfg_old, cfg_new, equal_strict,
                   keep_old, cfgs, given>>

NextEqual == EqualStrict \/ EqualRelaxed

SpecEqual == InitEqual /\ [][NextEqual]_vars

(***************************************************************************)
(* get_preferred_old_values.  It works on info_old itself: its outcome is  *)
(* [raised, keep_old, info_old], info_old being the info as the call left  *)
(* it.  keep_old maps a kind to a mapping from components to options.      *)
(***************************************************************************)
\* variant: every option of the component is recorded
RecordOf_AllOptions(prefer_old_k_this, entry) == entry

\* {o: block[k][o] for o in prefer_old_k_this if o in block[k]}
RecordOf(prefer_old_k_this, entry) ==
    [o \in prefer_old_k_this \cap DOMAIN entry |-> entry[o]]

\* the body of the loop "for k in block"
PreferComponent(acc, block_name, k) ==
    LET entry == acc.info_old[block_name].map[k]
    IN IF IsOptions(entry)
       THEN LET \* block[k].pop(_component_path, None), on the info itself
                popped == DictPop(entry, {k_component_path})
                info1 == With(acc.info_old, block_name,
                              OWith(acc.info_old[block_name], k, popped))
                cls == get_resolved_class(DictGet(popped, k_class_name, k),
                                          block_name)
                prefer_old_k_this == IF cls = "" THEN {}
                                     ELSE at_resume_prefer_old(cls)
            IN IF prefer_old_k_this = {}
               THEN [acc EXCEPT !.info_old = info1]
               ELSE [acc EXCEPT
                        !.info_old = info1,
                        !.keep_old =
                            With(acc.keep_old, block_name,
                                 With(DictGet(acc.keep_old, block_name, EmptyDict),
                                      k, RecordOf(prefer_old_k_this, popped)))]
       ELSE IF IsNone(entry)
            THEN LET cls == get_resolved_class(k, block_name)
                 IN IF cls = "" \/ at_resume_prefer_old(cls) = {}
                    THEN acc
                    \* "o in block[k]" with block[k] = None
                    ELSE [acc EXCEPT !.raised = TRUE]
            \* (block[k] or {}).get of a value that is not a dict
            ELSE [acc EXCEPT !.raised = TRUE]

RECURSIVE PreferComponents(_, _, _)
\* the loop "for k in block"
PreferComponents(acc, block_name, i) ==
    IF acc.raised \/ i > Len(acc.info_old[block_name].ord) THEN acc
    ELSE PreferComponents(
             PreferComponent(acc, block_name, acc.info_old[block_name].ord[i]),
             block_name, i + 1)

RECURSIVE PreferBlocks(_, _)
\* the loop "for block_name, block in info_old.items()"
PreferBlocks(acc, i) ==
    IF acc.raised \/ i > Len(TopOrder) THEN acc
    ELSE LET block_name == TopOrder[i]
         IN IF block_name \notin DOMAIN acc.info_old
               \/ block_name \notin Range(kinds)
               \/ IsNone(acc.info_old[block_name])
               \/ acc.info_old[block_name] = OEmpty
            THEN PreferBlocks(acc, i + 1)
            ELSE IF ~IsBlock(acc.info_old[block_name])
                 \* "for k in block" or "block[k]" of a value that is no dict
                 THEN [acc EXCEPT !.raised = TRUE]
                 ELSE PreferBlocks(PreferComponents(acc, block_name, 1), i + 1)

get_preferred_old_values(info_old) ==
    PreferBlocks([raised |-> FALSE, keep_old |-> EmptyDict,
                  info_old |-> info_old], 1)

(***************************************************************************)
(* Inputs of get_preferred_old_values: old infos with a theory A (whose    *)
(* class prefers the old "label"), a theory Z whose class is not found any *)
(* more, and likelihoods.                                                  *)
(***************************************************************************)
OldEntriesA ==
    { [speed |-> "1", label |-> "slow"],
      [speed |-> "2", label |-> "fast", python_path |-> "/p"],
      [speed |-> "1"],
      [speed |-> "1", python_path |-> "/p"],
      NoneInfo }

OldEntriesZ ==
    { [speed |-> "1", label |-> "slow"],
      [label |-> "old", python_path |-> "/q"],
      [label |-> "old", class |-> "A"] }

OldTheoryBlocks ==
    {OEmpty}
    \cup {OMap(<<"A">>, [A |-> a]) : a \in OldEntriesA}
    \cup {OMap(<<"Z">>, [Z |-> z]) : z \in OldEntriesZ}
    \cup {OMap(<<"A", "Z">>, [A |-> a, Z |-> z]) :
             a \in OldEntriesA, z \in OldEntriesZ}
    \cup {Val("1")}

OldLikeBlocks ==
    { OMap(<<"A">>, [A |-> [label |-> "lk", speed |-> "1"]]),
      OMap(<<"B">>, [B |-> [speed |-> "1", python_path |-> "/l"]]),
      OMap(<<"E">>, [E |-> [external |-> Callable, speed |-> "1"]]),
      OMap(<<"E", "B">>, [E |-> Callable, B |-> [speed |-> "1"]]) }

OldInfos ==
    { DictUpdate(DictUpdate([params |-> ParamsABC, debug |-> Val("True")],
                            th), li) :
        th \in Optional(k_theory, OldTheoryBlocks),
        li \in Optional(k_likelihood, OldLikeBlocks) }

InitPrefer ==
    /\ mode = "prefer"
    /\ pc = "call"
    /\ params_infos = <<>>
    /\ idx = 0
    /\ prev_info = OEmpty
    /\ current_info = OEmpty
    /\ info = Unused
    /\ updated = Unused
    /\ updated2 = Unused
    /\ cfg_old \in OldInfos
    /\ cfg_new = Unused
    /\ equal_strict = Unused
    /\ equal_relaxed = Unused
    /\ keep_old = Unused
    /\ cfgs = Unused
    /\ given = cfg_old

\* keep_old = get_preferred_old_values(cfg_old)
Prefer ==
    /\ mode = "prefer" /\ pc = "call"
    /\ LET r == get_preferred_old_values(cfg_old)
       IN /\ keep_old' = [raised |-> r.raised, keep_old |-> r.keep_old]
          /\ cfg_old' = r.info_old
    /\ pc' = "done"
    /\ UNCHANGED <<mode, params_infos, idx, prev_info, current_info, info,
                   updated, updated2, cfg_new, equal_strict, equal_relaxed,
                   cfgs, given>>

NextPrefer == Prefer

SpecPrefer == InitPrefer /\ [][NextPrefer]_vars

(***************************************************************************)
(* merge_info.  recursive_update (cobaya.tools) overlays a dict on a base: *)
(* a value that is a mapping is merged into the value of the base, any     *)
(* other value replaces it.  An info has three levels of mappings: the     *)
(* info, its blocks, and the options of the entries of a block.            *)
(***************************************************************************)
MaxInfos == 3

\* recursive_update of the options of an entry: the values are not mappings
recursive_update_options(base, update) == DictUpdate(base, update)

\* recursive_update of a block; a base that is None or missing counts as {}
recursive_update_block(base, update) ==
    LET b == IF IsBlock(base) THEN base ELSE OEmpty
        added == SelectSeq(update.ord, LAMBDA k : k \notin Keys(b))
    IN OMap(b.ord \o added,
            [k \in Keys(b) \cup Keys(update) |->
                IF k \notin Keys(update) THEN b.map[k]
                ELSE IF IsOptions(update.map[k])
                     THEN recursive_update_options(
                              IF k \in Keys(b) /\ IsOptions(b.map[k])
                              THEN b.map[k] ELSE EmptyDict,
                              update.map[k])
                     ELSE update.map[k]])

\* recursive_update of an info
recursive_update(base, update) ==
    [k \in (DOMAIN base) \cup (DOMAIN update) |->
        IF k \notin DOMAIN update THEN base[k]
        ELSE IF IsBlock(update[k])
             THEN recursive_update_block(DictGet(base, k, OEmpty), update[k])
             ELSE update[k]]

\* info.pop(_params, {}) or {}
PoppedParams(an_info) ==
    LET p == DictGet(an_info, k_params, OEmpty)
    IN IF IsBlock(p) THEN p ELSE OEmpty

\* variant: the params block is overlaid like the other blocks
merge_info_step_Overlay(previous_info, new_info) ==
    [current |-> recursive_update(previous_info, new_info),
     new_info |-> new_info]

\* the body of the loop "for new_info in infos[1:]": the info it builds, and
\* new_info as the step leaves it (its params are popped from a copy)
merge_info_step(previous_info, new_info) ==
    LET previous_params_info == PoppedParams(previous_info)
        new_params_info == PoppedParams(new_info)
        popped == DictPop(previous_info, {k_params})
    IN [current |-> With(recursive_update(popped, new_info), k_params,
                         merge_params_info(
                             <<previous_params_info, new_params_info>>, "True")),
        new_info |-> new_info]

(***************************************************************************)
(* Inputs of merge_info: one to MaxInfos infos.                            *)
(***************************************************************************)
MergeableInfos ==
    { [theory |-> OMap(<<"A">>, [A |-> [speed |-> "1"]]),
       params |-> OMap(<<"a", "c">>,
                       [a |-> [prior |-> "P1", latex |-> "la"],
                        c |-> [derived |-> "True", min |-> "0"]]),
       debug |-> Val("True")],
      [theory |-> OMap(<<"A">>, [A |-> [label |-> "fast"]])],
      [theory |-> OMap(<<"Z", "A">>, [A |-> NoneInfo, Z |-> [speed |-> "3"]])],
      [params |-> OMap(<<"a">>, [a |-> [value |-> "1"]])],
      [params |-> OMap(<<"b", "a">>, [a |-> [latex |-> "lb"], b |-> InfoB]),
       theory |-> OMap(<<"A">>, [A |-> [speed |-> "2"]]),
       debug |-> Val("False")],
      [params |-> NoneInfo, likelihood |-> OMap(<<"B">>, [B |-> NoneInfo])],
      [theory |-> NoneInfo, output |-> Str("chains/a")],
      [likelihood |-> OMap(<<"B">>, [B |-> [speed |-> "5"]]),
       params |-> OMap(<<"c">>, [c |-> [max |-> "9"]])] }

InfoLists == UNION {[1..n -> MergeableInfos] : n \in 1..MaxInfos}

InitMergeInfo ==
    /\ mode = "merge_info"
    /\ pc = "call"
    /\ params_infos = <<>>
    /\ idx = 0
    /\ prev_info = OEmpty
    /\ current_info = OEmpty
    /\ info = Unused
    /\ updated = Unused
    /\ updated2 = Unused
    /\ cfg_old = Unused
    /\ cfg_new = Unused
    /\ equal_strict = Unused
    /\ equal_relaxed = Unused
    /\ keep_old = Unused
    /\ cfgs \in InfoLists
    /\ given = cfgs

\* previous_info = deepcopy(infos[0])
MergeInfoFirst ==
    /\ mode = "merge_info" /\ pc = "call"
    /\ prev_info' = cfgs[1]
    /\ idx' = 1
    /\ pc' = "loop"
    /\ UNCHANGED <<mode, params_infos, current_info, info, updated, updated2,
                   cfg_old, cfg_new, equal_strict, equal_relaxed, keep_old,
                   cfgs, given>>

\* one iteration of "for new_info in infos[1:]"
MergeInfoStep ==
    /\ mode = "merge_info" /\ pc = "loop"
    /\ idx < Len(cfgs)
    /\ LET step == merge_info_step(prev_info, cfgs[idx + 1])
       IN /\ current_info' = step.current
          /\ prev_info' = step.current
          /\ cfgs' = [cfgs EXCEPT ![idx + 1] = step.new_info]
    /\ idx' = idx + 1
    /\ UNCHANGED <<mode, pc, params_infos, info, updated, updated2,
                   cfg_old, cfg_new, equal_strict, equal_relaxed, keep_old,
                   given>>

\* "return previous_info" for one info, "return current_info" after the loop
MergeInfoReturn ==
    /\ mode = "merge_info" /\ pc = "loop"
    /\ idx = Len(cfgs)
    /\ current_info' = IF Len(cfgs) = 1 THEN prev_info ELSE current_info
    /\ pc' = "done"
    /\ UNCHANGED <<mode, params_infos, idx, prev_info, info, updated, updated2,
                   cfg_old, cfg_new, equal_strict, equal_relaxed, keep_old,
                   cfgs, given>>

NextMergeInfo == MergeInfoFirst \/ MergeInfoStep \/ MergeInfoReturn

SpecMergeInfo == InitMergeInfo /\ [][NextMergeInfo]_vars

(***************************************************************************)
(* Properties of merge_params_info.                                        *)
(***************************************************************************)
MergeDone == mode = "merge" /\ pc = "done"

\* a layer has just been folded in by the loop
LayerApplied == mode = "merge" /\ pc = "loop" /\ idx >= 2

Has(r, f) == f \in DOMAIN r

HasAny(r, fs) == (DOMAIN r) \cap fs # {}

\* the invariant of the info of one parameter
ParamInvariant(r) ==
    /\ Has(r, "prior")   => ~HasAny(r, {"value", "derived", "min", "max"})
    /\ Has(r, "value")   => ~HasAny(r, {"prior", "ref", "proposal"})
    /\ Has(r, "derived") => ~HasAny(r, {"prior", "drop", "ref", "proposal"})

\* r carries no field incompatible with a field that the record new sets
ClearedAgainst(r, new) ==
    /\ Has(new, "prior")   => ~HasAny(r, {"value", "derived", "min", "max"})
    /\ Has(new, "value")   => ~HasAny(r, {"prior", "ref", "proposal"})
    /\ Has(new, "derived") => ~HasAny(r, {"prior", "drop", "ref", "proposal"})

\* the parameters that some non-base layer updated
UpdatedParams == UNION {Keys(params_infos[i]) : i \in 2..Len(params_infos)}

\* the last layer that gives parameter p
LastLayer(p) ==
    CHOOSE i \in 1..Len(params_infos) :
        /\ p \in Keys(params_infos[i])
        /\ \A j \in (i + 1)..Len(params_infos) : p \notin Keys(params_infos[j])

\* the info that layer i gives for p, in the structured form
Given(i, p) ==
    IF i = 1 THEN expand_info_param(params_infos[1].map[p], "True")
    ELSE IF IsShorthand(params_infos[i].map[p])
         THEN IF params_infos[i].map[p].t = "none" THEN [derived |-> "True"]
              ELSE IF params_infos[i].map[p].v \in StrValues
                   THEN [value |-> params_infos[i].map[p].v, derived |-> "True"]
                   ELSE [value |-> params_infos[i].map[p].v]
         ELSE IF HasAny(params_infos[i].map[p], {"prior", "value", "derived"})
              THEN params_infos[i].map[p]
              ELSE DictUpdate(params_infos[i].map[p], [derived |-> "True"])

\* C1: after merge_params_info, every parameter that a non-base layer
\* updated satisfies the incompatibility invariant of a parameter info.
C1_InvariantAfterMerge ==
    MergeDone => \A p \in UpdatedParams : ParamInvariant(current_info.map[p])

\* the record of p before and after the layer just folded in, and what the
\* layer gives
Before(p) == IF p \in Keys(prev_info) THEN prev_info.map[p] ELSE EmptyDict
After(p) == current_info.map[p]
New(p) == Given(idx, p)

\* the fields of an earlier layer that the new layer neither sets nor clears
\* are kept with their value
KeepsOthers(p) ==
    \A f \in DOMAIN Before(p) :
        (/\ ~Has(New(p), f)
         /\ Has(New(p), "prior")   => f \notin {"value", "derived", "min", "max"}
         /\ Has(New(p), "value")   => f \notin {"prior", "ref", "proposal"}
         /\ Has(New(p), "derived") => f \notin {"prior", "drop", "ref", "proposal"})
        => Has(After(p), f) /\ After(p)[f] = Before(p)[f]

PosIn(s, x) == CHOOSE i \in 1..Len(s) : s[i] = x

\* C3: the keys of the result are the union of the keys of the layers, each
\* once, ordered by the last layer that gives them (later layers first) and,
\* within one layer, by the order of that layer; for two layers L1, L2 this
\* is L2's keys followed by the keys of L1 absent from L2.
C3_ResultOrder ==
    MergeDone =>
        /\ NoDup(current_info.ord)
        /\ Range(current_info.ord) =
              UNION {Keys(params_infos[i]) : i \in 1..Len(params_infos)}
        /\ DOMAIN current_info.map = Range(current_info.ord)
        /\ \A i, j \in 1..Len(current_info.ord) :
              i < j =>
                LET p == current_info.ord[i]
                    q == current_info.ord[j]
                IN \/ LastLayer(p) > LastLayer(q)
                   \/ /\ LastLayer(p) = LastLayer(q)
                      /\ PosIn(params_infos[LastLayer(p)].ord, p)
                            < PosIn(params_infos[LastLayer(p)].ord, q)
        /\ Len(params_infos) = 2 =>
              current_info.ord =
                  params_infos[2].ord
                  \o SelectSeq(params_infos[1].ord,
                               LAMBDA p : p \notin Keys(params_infos[2]))

\* two layers list a and b in opposite orders; the result follows the last
C3_Witness ==
    /\ MergeDone
    /\ params_infos[1].ord = <<"a", "b">>
    /\ params_infos[Len(params_infos)].ord = <<"b", "a">>
    /\ current_info.ord = <<"b", "a">>

(***************************************************************************)
(* Properties of update_info.                                              *)
(***************************************************************************)
\* update_info has been called on info
Called == mode = "update" /\ pc # "call"

\* update_info has returned an updated info
Returned == Called /\ updated.ok

\* the components that info uses, as pairs (kind, name)
Used ==
    {kc \in {k_theory, k_likelihood} \X {"A", "B", "C", "E", "Z"} :
        /\ kc[1] \in DOMAIN info
        /\ IsBlock(info[kc[1]])
        /\ kc[2] \in Keys(info[kc[1]])}

\* the entry of a component as a dict of options
EntryOf(kc) == NormalEntry(info[kc[1]].map[kc[2]])

\* the defaults and the annotations of the class of a used component
ClassInfoOf(kc) == DefaultsFor(kc[1], kc[2], EntryOf(kc)).d

DefaultPriorOf(kc) == DictGet(ClassInfoOf(kc).defaults, "prior", OEmpty)
DefaultParamsOf(kc) == DictGet(ClassInfoOf(kc).defaults, "params", OEmpty)

RawPrior == DictGet(info, "prior", OEmpty)

\* the definitions given for a prior name / for a default parameter
PriorDefs(name) ==
    {RawPrior.map[n] : n \in {name} \cap Keys(RawPrior)}
    \cup {DefaultPriorOf(kc).map[name] :
              kc \in {x \in Used : name \in Keys(DefaultPriorOf(x))}}

ParamDefs(p) ==
    {DefaultParamsOf(kc).map[p] :
         kc \in {x \in Used : p \in Keys(DefaultParamsOf(x))}}

PriorNames == Keys(RawPrior) \cup UNION {Keys(DefaultPriorOf(kc)) : kc \in Used}
DefaultParamNames == UNION {Keys(DefaultParamsOf(kc)) : kc \in Used}

\* some prior or default parameter is defined in two different ways
Conflict ==
    \/ \E n \in PriorNames : Cardinality(PriorDefs(n)) > 1
    \/ \E p \in DefaultParamNames : Cardinality(ParamDefs(p)) > 1

\* update_info got past the loop over the components and did not stop for a
\* reason other than a conflict
OnlyConflictsCanFail == Called /\ (updated.ok \/ updated.err \in {"prior", "params"})

\* C4: the templates of the auto_params block are expanded into the params
\* block, one parameter per value of the range, with the placeholder
\* replaced in the name and in the string fields; a template without the
\* placeholder makes update_info fail.
C4_AutoParamsExpanded ==
    (Called /\ k_auto_params \in DOMAIN info) =>
        LET auto == info[k_auto_params]
        IN /\ (\E k \in Keys(auto) : ~HasPlaceholder(k)) => ~updated.ok
           /\ updated.ok =>
                 \A k \in Keys(auto) : \A i \in 1..Len(auto.map[k].auto_range) :
                     LET v == auto.map[k].auto_range[i]
                     IN /\ Format(k, v) \in Keys(updated.info[k_params])
                        /\ updated.info[k_params].map[Format(k, v)]["latex"]
                               = Format(auto.map[k]["latex"], v)

\* C5: update_info fails when a prior name, or a default parameter, is
\* defined differently by two components (or by the prior block of the info
\* and a component); when all definitions agree it succeeds and each name
\* appears once.
C5_ConflictsDetected ==
    OnlyConflictsCanFail =>
        /\ Conflict => ~updated.ok
        /\ ~Conflict =>
              /\ updated.ok
              /\ k_prior \in DOMAIN updated.info =>
                    /\ NoDup(updated.info[k_prior].ord)
                    /\ PriorNames \subseteq Keys(updated.info[k_prior])
              /\ NoDup(updated.info[k_params].ord)
              /\ DefaultParamNames \subseteq Keys(updated.info[k_params])

\* C6: the prior block of the updated info is exactly the union of the prior
\* block of the info and of the default priors of all used components.
C6_PriorIsUnion ==
    Returned =>
        LET res == DictGet(updated.info, k_prior, OEmpty)
        IN /\ Keys(res) = PriorNames
           /\ \A n \in PriorNames : res.map[n] \in PriorDefs(n)

\* C7: the prior block of an updated info is never empty.
C7_PriorNeverEmpty ==
    (Returned /\ k_prior \in DOMAIN updated.info) =>
        updated.info[k_prior].ord # <<>>

\* C7 (amended): the prior block of an updated info is empty only if the
\* info itself gives an empty prior block.
C7_PriorEmptyOnlyIfGivenEmpty ==
    (Returned /\ k_prior \in DOMAIN updated.info
        /\ updated.info[k_prior].ord = <<>>) =>
        (k_prior \in DOMAIN info /\ info[k_prior].ord = <<>>)

\* an info without prior block whose components have default priors: the
\* updated info has a prior block, which is not empty
C7_Witness ==
    /\ Returned
    /\ k_prior \notin DOMAIN info
    /\ k_prior \in DOMAIN updated.info
    /\ updated.info[k_prior].ord # <<>>

\* the options of an entry that are not recognised
Unrecognized(kc) ==
    (DOMAIN EntryOf(kc))
    \ ({"external", "class", "provides", "requires", "renames", "input_params",
        "output_params", "python_path", "aliases"}
       \cup DOMAIN ClassInfoOf(kc).defaults
       \cup ClassInfoOf(kc).annotations)

\* C8: update_info fails for the entry of a component if and only if the
\* entry has an option that is neither reserved, nor a default, nor an
\* annotation of the class; then every such option is reported, each with at
\* most 3 alternatives, and no updated info is returned.
C8_UnrecognizedOptions ==
    Called =>
        /\ (~updated.ok /\ updated.err = "unrecognized") =>
              LET kc == <<updated.block, updated.component>>
              IN /\ kc \in Used
                 /\ Unrecognized(kc) # {}
                 /\ DOMAIN updated.alternatives = Unrecognized(kc)
                 /\ \A o \in Unrecognized(kc) :
                       Cardinality(updated.alternatives[o]) <= 3
                 /\ "info" \notin DOMAIN updated
        /\ updated.ok => \A kc \in Used : Unrecognized(kc) = {}

\* an entry with unknown options has been rejected, one of the options with
\* three alternatives
C8_Witness ==
    /\ Called
    /\ ~updated.ok /\ updated.err = "unrecognized"
    /\ \E o \in DOMAIN updated.alternatives :
          Cardinality(updated.alternatives[o]) = 3
    /\ \E o \in DOMAIN updated.alternatives : updated.alternatives[o] = {}

\* C9: the options of every component of the updated info are the defaults
\* of its class overlaid with the options of its entry; for an entry that is
\* None or empty they are the defaults for empty input options.
C9_DefaultsOverlaid ==
    Returned =>
        \A kc \in Used :
            LET res == updated.info[kc[1]].map[kc[2]]
                dflt == ClassInfoOf(kc).defaults
            IN /\ DOMAIN res = (DOMAIN dflt) \cup (DOMAIN EntryOf(kc))
               /\ \A o \in DOMAIN EntryOf(kc) : res[o] = EntryOf(kc)[o]
               /\ \A o \in (DOMAIN dflt) \ (DOMAIN EntryOf(kc)) : res[o] = dflt[o]
               /\ EntryOf(kc) = EmptyDict =>
                     res = get_defaults(get_resolved_class(kc[2], kc[1]),
                                        EmptyDict)

\* a theory whose entry changes an option on which another default depends
C9_Witness ==
    /\ Returned
    /\ <<k_theory, "A">> \in Used
    /\ EntryOf(<<k_theory, "A">>) = [speed |-> "2"]
    /\ updated.info[k_theory].map["A"]["speed"] = "2"
    /\ updated.info[k_theory].map["A"]["label"] = "fast"
    /\ updated.info[k_theory].map["A"]["stop_at_error"] = "False"

\* C10: update_info applied to an info it returned succeeds and returns an
\* info that is_equal_info finds equal, in strict mode, to the first one.
C10_Idempotent ==
    (mode = "update" /\ pc = "updated2") =>
        /\ updated2.ok
        /\ is_equal_info(updated.info, updated2.info, TRUE) = "equal"

(***************************************************************************)
(* Properties of is_equal_info.                                            *)
(***************************************************************************)
Compared == mode = "equal" /\ pc = "done"

\* the outcome of a mode is the given one, once that mode has been run
StrictIs(r) == equal_strict \in {Unused, r}
RelaxedIs(r) == equal_relaxed \in {Unused, r}

\* a resolved info: its blocks of components are mappings of options
IsResolved(cfg) ==
    \A kind \in Range(kinds) \cap DOMAIN cfg :
        /\ IsBlock(cfg[kind])
        /\ \A k \in Keys(cfg[kind]) : IsOptions(cfg[kind].map[k])

BothResolved == mode = "equal" /\ IsResolved(cfg_old) /\ IsResolved(cfg_new)

\* the two infos have the same keys with the same contents in every block
SameUpToOrder(c1, c2) ==
    /\ DOMAIN c1 = DOMAIN c2
    /\ \A k \in DOMAIN c1 :
          IF IsBlock(c1[k])
          THEN IsBlock(c2[k]) /\ c1[k].map = c2[k].map
          ELSE c1[k] = c2[k]

\* some block lists its keys in a different order in the two infos
OrderDiffers(c1, c2) ==
    \E k \in DOMAIN c1 : IsBlock(c1[k]) /\ c1[k].ord # c2[k].ord

\* C11: for two infos with the same components, parameters and priors with
\* the same contents, listed in a different order in some block,
\* is_equal_info returns True when not strict and False when strict.
C11_OrderIgnoredWhenRelaxed ==
    (BothResolved /\ SameUpToOrder(cfg_old, cfg_new)
       /\ OrderDiffers(cfg_old, cfg_new))
    => (RelaxedIs("equal") /\ StrictIs("different"))

\* C11 (witness): two infos that list the same theories in a different order
\* have been compared in both modes.
C11_Witness ==
    /\ Compared /\ BothResolved
    /\ SameUpToOrder(cfg_old, cfg_new)
    /\ k_theory \in DOMAIN cfg_old
    /\ cfg_old[k_theory].ord # cfg_new[k_theory].ord
    /\ equal_relaxed = "equal" /\ equal_strict = "different"

\* the fields of the info of a parameter that do not affect the posterior
Cosmetic == {f_latex, f_renames, f_ref, f_proposal, "min", "max"}

\* the info of a parameter without its cosmetic fields, and without the
\* derived flag when the parameter has a fixed value
Essential(p_info) ==
    LET e == expand_info_param(p_info, "True")
    IN DictPop(e, Cosmetic \cup (IF f_value \in DOMAIN e THEN {f_derived} ELSE {}))

\* the two infos differ, and only in cosmetic fields of their parameters
DifferOnlyCosmetic(c1, c2) ==
    /\ c1 # c2
    /\ DOMAIN c1 = DOMAIN c2
    /\ k_params \in DOMAIN c1
    /\ \A k \in (DOMAIN c1) \ {k_params} : c1[k] = c2[k]
    /\ c1[k_params].ord = c2[k_params].ord
    /\ \A p \in Keys(c1[k_params]) :
          Essential(c1[k_params].map[p]) = Essential(c2[k_params].map[p])

\* C12: when not strict, is_equal_info returns True for two infos whose
\* params blocks differ only in the latex label, renames, ref, proposal, min
\* or max of some parameter, or in the derived flag of a parameter with a
\* fixed value.
C12_CosmeticIgnored ==
    (BothResolved /\ DifferOnlyCosmetic(cfg_old, cfg_new)) => RelaxedIs("equal")

\* C13: is_equal_info does not raise, whatever the two infos hold.
C13_NeverRaises ==
    mode = "equal" => (equal_strict # "raised" /\ equal_relaxed # "raised")

\* the run-control options of the root of an info
RunControl == {k_debug, k_debug_file, k_resume, k_force, k_packages_path,
               k_test_run, k_version}

\* the two infos differ, and only in their run-control options
DifferOnlyRunControl(c1, c2) ==
    c1 # c2 /\ DictPop(c1, RunControl) = DictPop(c2, RunControl)

\* the options of an info whose value is not None
NonNull(cfg) == [k \in {x \in DOMAIN cfg : ~IsNone(cfg[x])} |-> cfg[k]]

\* C14: two infos that differ only in the presence or the value of
\* run-control options are equal when not strict and different when strict.
C14_RunControlIgnored ==
    (BothResolved /\ DifferOnlyRunControl(cfg_old, cfg_new))
    => (RelaxedIs("equal") /\ StrictIs("different"))

\* C14 (amended): two infos that differ only in run-control options are
\* equal when not strict; when strict they are different, unless they differ
\* only in run-control options whose value is None, which count as absent.
C14_RunControlIgnoredUpToNone ==
    (BothResolved /\ DifferOnlyRunControl(cfg_old, cfg_new))
    => /\ RelaxedIs("equal")
       /\ NonNull(cfg_old) # NonNull(cfg_new) => StrictIs("different")
       /\ NonNull(cfg_old) = NonNull(cfg_new) => StrictIs("equal")

\* C14 (witness): two infos with different versions have been compared.
C14_Witness ==
    /\ Compared /\ BothResolved
    /\ DifferOnlyRunControl(cfg_old, cfg_new)
    /\ k_version \in DOMAIN cfg_old /\ k_version \in DOMAIN cfg_new
    /\ equal_relaxed = "equal" /\ equal_strict = "different"

\* C20: for two resolved infos, is_equal_info returns True when not strict
\* whenever it returns True when strict; an info is equal to itself in both
\* modes.
C20_RelaxedWeakerThanStrict ==
    (Compared /\ BothResolved)
    => /\ equal_strict = "equal" => equal_relaxed = "equal"
       /\ cfg_old = cfg_new => equal_strict = "equal"

\* C20 (witness): two resolved infos that are not the same have been found
\* equal in both modes.
C20_Witness ==
    /\ Compared /\ BothResolved
    /\ cfg_old # cfg_new
    /\ equal_strict = "equal" /\ equal_relaxed = "equal"

(***************************************************************************)
(* Properties of get_preferred_old_values.                                 *)
(***************************************************************************)
Preferred == mode = "prefer" /\ pc = "done"

\* C15: after get_preferred_old_values, the old info passed to it is as it
\* was before the call: every component has the options it had, the search
\* path of the component included.
C15_InputUnchanged == Preferred => cfg_old = given

\* the components of the blocks of components of the info given
OldComponents ==
    {kc \in Range(kinds) \X {"A", "B", "E", "Z"} :
        /\ kc[1] \in DOMAIN given
        /\ IsBlock(given[kc[1]])
        /\ kc[2] \in Keys(given[kc[1]])}

OldOptions(kc) == given[kc[1]].map[kc[2]]

\* the options that the class of a component prefers to keep when resuming;
\* none when the class is not found
PreferOld(kc) ==
    LET cls == get_resolved_class(DictGet(OldOptions(kc), k_class_name, kc[2]),
                                  kc[1])
    IN IF cls = "" THEN {} ELSE at_resume_prefer_old(cls)

Recorded(kc) ==
    IF kc[1] \in DOMAIN keep_old.keep_old
          /\ kc[2] \in DOMAIN keep_old.keep_old[kc[1]]
    THEN keep_old.keep_old[kc[1]][kc[2]]
    ELSE EmptyDict

\* C16: for a resolved old info, get_preferred_old_values does not fail and
\* returns {kind: {component: {option: value}}} with exactly the options of
\* each component that its class prefers to keep and the old info gives, at
\* their old values; a component whose class is not found has no entry.
C16_PreferredOldValues ==
    (Preferred /\ IsResolved(given))
    => /\ ~keep_old.raised
       /\ \A kind \in DOMAIN keep_old.keep_old :
             /\ kind \in Range(kinds)
             /\ \A k \in DOMAIN keep_old.keep_old[kind] :
                   <<kind, k>> \in OldComponents
       /\ \A kc \in OldComponents :
             /\ DOMAIN Recorded(kc) = PreferOld(kc) \cap DOMAIN OldOptions(kc)
             /\ \A o \in DOMAIN Recorded(kc) : Recorded(kc)[o] = OldOptions(kc)[o]
             /\ PreferOld(kc) = {} =>
                   (kc[1] \notin DOMAIN keep_old.keep_old
                    \/ kc[2] \notin DOMAIN keep_old.keep_old[kc[1]])

\* C16 (witness): the old label of theory A has been recorded, next to a
\* theory whose class is not found and that has a label too.
C16_Witness ==
    /\ Preferred /\ IsResolved(given)
    /\ <<k_theory, "A">> \in OldComponents
    /\ <<k_theory, "Z">> \in OldComponents
    /\ PreferOld(<<k_theory, "Z">>) = {}
    /\ "label" \in DOMAIN OldOptions(<<k_theory, "Z">>)
    /\ "label" \in DOMAIN Recorded(<<k_theory, "A">>)
    /\ DOMAIN keep_old.keep_old[k_theory] = {"A"}

(***************************************************************************)
(* Properties of the renames that update_info adds to the parameters.      *)
(***************************************************************************)
\* the rename tables of the theories and likelihoods of the updated info
RenameTables ==
    {t \in {DictGet(updated.info[kc[1]].map[kc[2]], f_renames, EmptyDict) :
               kc \in {x \in {k_theory, k_likelihood} \X {"A", "B", "C", "E", "Z"} :
                          /\ x[1] \in DOMAIN updated.info
                          /\ x[2] \in Keys(updated.info[x[1]])}} :
        t # EmptyDict}

\* the rename groups: a name with the names it is renamed to
RenameGroups == UNION {{{k} \cup t[k] : k \in DOMAIN t} : t \in RenameTables}

RECURSIVE Reachable(_)
\* the names joined to those of S by a chain of overlapping rename groups
Reachable(S) ==
    LET more == S \cup UNION {g \in RenameGroups : g \cap S # {}}
    IN IF more = S THEN S ELSE Reachable(more)

\* the renames that the raw info gives for parameter p
GivenRenames(p) ==
    IF k_params \in DOMAIN info /\ p \in Keys(info[k_params])
          /\ IsOptions(info[k_params].map[p])
    THEN DictGet(info[k_params].map[p], f_renames, {})
    ELSE {}

\* C17: after update_info, the renames of every parameter that occurs in a
\* rename group of a theory or likelihood are the names reachable from it
\* through overlapping rename groups, with the renames it already had and
\* without the parameter itself.
C17_RenamesTransitive ==
    Returned =>
        \A p \in Keys(updated.info[k_params]) :
            (\E g \in RenameGroups : p \in g)
            => /\ f_renames \in DOMAIN updated.info[k_params].map[p]
               /\ updated.info[k_params].map[p][f_renames]
                     = (Reachable({p}) \cup GivenRenames(p)) \ {p}

(***************************************************************************)
(* Properties of the bounds in merge_params_info.                          *)
(***************************************************************************)
\* C19: right after a non-base layer that gives exactly one of min and max
\* for a parameter, the other bound of the parameter is not the one of the
\* earlier layers: it is None.
C19_OtherBoundReset ==
    LayerApplied =>
        \A p \in Keys(params_infos[idx]) :
            \A b \in {<<"min", "max">>, <<"max", "min">>} :
                (Has(New(p), b[1]) /\ ~Has(New(p), b[2]) /\ Has(Before(p), b[2]))
                => (~Has(After(p), b[2]) \/ After(p)[b[2]] = "None")

(***************************************************************************)
(* Properties of merge_info.                                               *)
(***************************************************************************)
MergedInfos == mode = "merge_info" /\ pc = "done" /\ Len(given) >= 2

\* the greatest element of a non-empty set of indices
Rightmost(S) == CHOOSE i \in S : \A j \in S : j <= i

\* the elements of S after the last element of S that is in R
SinceLast(S, R) ==
    IF S \cap R = {} THEN S ELSE {i \in S : i > Rightmost(S \cap R)}

\* the infos that define the top-level key k
Definers(k) == {i \in 1..Len(given) : k \in DOMAIN given[i]}

\* the options e are those of entry c of block k of the infos of C, each
\* option at the value of the rightmost info that gives it
OptionsAre(e, k, c, C) ==
    /\ DOMAIN e = UNION {DOMAIN given[i][k].map[c] : i \in C}
    /\ \A o \in DOMAIN e :
          e[o] = given[Rightmost({i \in C : o \in DOMAIN given[i][k].map[c]})]
                     [k].map[c][o]

\* the block blk is the merge of the blocks k of the infos of C: an entry is
\* that of the rightmost info that gives it if it is not a mapping, else the
\* merge of the mappings given since the last value that was not one
BlockIs(blk, k, C) ==
    /\ IsBlock(blk)
    /\ Keys(blk) = UNION {Keys(given[i][k]) : i \in C}
    /\ \A c \in Keys(blk) :
          LET D == {i \in C : c \in Keys(given[i][k])}
              last == given[Rightmost(D)][k].map[c]
          IN IF ~IsOptions(last) THEN blk.map[c] = last
             ELSE OptionsAre(blk.map[c], k, c,
                      SinceLast(D, {i \in D : ~IsOptions(given[i][k].map[c])}))

\* the value v is that of the top-level key k after merging the infos
ValueIs(v, k) ==
    LET last == given[Rightmost(Definers(k))][k]
    IN IF ~IsBlock(last) THEN v = last
       ELSE BlockIs(v, k,
                SinceLast(Definers(k),
                          {i \in Definers(k) : ~IsBlock(given[i][k])}))

RECURSIVE ParamsMerged(_)
\* the params blocks of the first n infos, merged from left to right
ParamsMerged(n) ==
    IF n = 1 THEN PoppedParams(given[1])
    ELSE merge_params_info(<<ParamsMerged(n - 1), PoppedParams(given[n])>>,
                           "True")

\* C18: merge_info of two or more infos returns an info in which every
\* option but params has the value of the rightmost info that defines it,
\* mappings being merged level by level, and whose params block is the
\* params blocks of the infos merged from left to right by
\* merge_params_info; the infos passed are left as they were.
C18_MergeInfo ==
    MergedInfos =>
        /\ DOMAIN current_info
              = UNION {DOMAIN given[i] : i \in 1..Len(given)} \cup {k_params}
        /\ \A k \in (DOMAIN current_info) \ {k_params} :
              ValueIs(current_info[k], k)
        /\ current_info[k_params] = ParamsMerged(Len(given))
        /\ cfgs = given

\* C18 (witness): three infos have been merged; a parameter with a prior in
\* the first info has a fixed value and no prior, and theory A has options
\* of two infos.
C18_Witness ==
    /\ MergedInfos /\ Len(given) = 3
    /\ k_params \in DOMAIN given[1]
    /\ IsBlock(given[1][k_params])
    /\ "a" \in Keys(given[1][k_params])
    /\ Has(given[1][k_params].map["a"], "prior")
    /\ Has(current_info[k_params].map["a"], "value")
    /\ ~Has(current_info[k_params].map["a"], "prior")
    /\ k_theory \in DOMAIN current_info
    /\ IsBlock(current_info[k_theory])
    /\ "A" \in Keys(current_info[k_theory])
    /\ IsOptions(current_info[k_theory].map["A"])
    /\ current_info[k_theory].map["A"] = [speed |-> "1", label |-> "fast"]

====
